---- MODULE Spec2Model ----
(***************************************************************************)
(* Breadth-first search (1-bfs-graph.py) and Dijkstra's search with path   *)
(* reconstruction (3-dijkstra.py) as one state machine.  A behaviour runs  *)
(* one of the two searches on one graph; a Dijkstra run is followed by     *)
(* reconstruct_path on the tables it returned, as the module driver does.  *)
(* Every step of a loop body is one action, so the tables are observed     *)
(* between any two writes.                                                 *)
(*                                                                         *)
(*   Spec             one search on one graph, then reconstruct_path       *)
(*   SpecReconstruct  reconstruct_path alone, on any came_from table       *)
(*   SpecTwice        one search, then the same search called again        *)
(*                                                                         *)
(* Graphs: every dict of neighbour lists over the locations with at most   *)
(* MaxEdges edges, no location its own neighbour or listed twice; costs    *)
(* are naturals, zero included.                                            *)
(***************************************************************************)
EXTENDS Integers, Sequences, FiniteSets, TLC

\* ------------------------------------------------------------------ bounds
\* Locations are 1 .. NumLoc; a graph has at most MaxEdges edges, whose costs
\* are naturals that sum to at most MaxWeight.
NumLoc == 3
MaxEdges == 3
MaxWeight == 2

\* --------------------------------------------------------------- locations
Location == 1 .. NumLoc

\* Python's None: the backpointer of start, and the value of a function that
\* falls off its end.  It is no location.
None == 0

VARIABLES
    edges,        \* SimpleGraph.edges: Location -> list of neighbours, in order
    weights,      \* WeightedGraph.cost as a table over the graph's edges
    start,
    goal,
    pc,           \* position in the running function
    frontier,     \* Queue.elements (a deque) or PriorityQueue.elements (a heap)
    reached,      \* keys of breadth_first_search's reached dict
    came_from,
    cost_so_far,
    current,
    i,            \* position of the for loop in graph.neighbors(current)
    path,         \* reconstruct_path's list
    ret,          \* <<>> until the search returns, then the tuple of what it returned
    visited,      \* locations in the order frontier.get() returned them
    puts,         \* number of frontier.put calls per location
    reads,        \* keys at which reconstruct_path subscripted came_from
    run,          \* 1 in the first call of the search, 2 in a repeated call
    first         \* what the first call left behind, once a second call began

vars == <<edges, weights, start, goal, pc, frontier, reached, came_from,
          cost_so_far, current, i, path, ret, visited, puts, reads, run, first>>

\* reconstruct_path is followed for at most this many backpointers: more than
\* any walk that ends can take, since such a walk meets no key twice; a walk
\* that gets this far is in a cycle.
MaxPath == Cardinality(DOMAIN came_from) + 2

\* ------------------------------------------------------------------ graphs
Range(s) == {s[k] : k \in DOMAIN s}

Injective(s) == \A a, b \in DOMAIN s : s[a] = s[b] => a = b

\* Neighbour lists of location u: every ordering of every set of at most
\* budget other locations.
NeighborLists(u, budget) ==
    {s \in UNION {[1 .. k -> Location \ {u}] : k \in 0 .. budget} : Injective(s)}

\* All edge dicts over locations 1..n with at most budget edges in total.
RECURSIVE Graphs(_, _)
Graphs(n, budget) ==
    IF n = 0 THEN {<<>>}
    ELSE UNION {{Append(g, l) : g \in Graphs(n - 1, budget - Len(l))} :
                    l \in NeighborLists(n, budget)}

EdgePairs(g) == {<<u, v>> \in Location \X Location : v \in Range(g[u])}

\* All cost tables over the edges in pairs whose costs sum to at most budget.
RECURSIVE CostTables(_, _)
CostTables(pairs, budget) ==
    IF pairs = {} THEN {<<>>}
    ELSE LET e == CHOOSE x \in pairs : TRUE IN
         UNION {{[x \in pairs |-> IF x = e THEN c ELSE w[x]] :
                    w \in CostTables(pairs \ {e}, budget - c)} : c \in 0 .. budget}

\* neighbors that loses the last entry of the list.
neighborsButLast(id) == SubSeq(edges[id], 1, Len(edges[id]) - 1)

neighbors(id) == edges[id]

cost(from_id, to_id) == weights[<<from_id, to_id>>]

\* ------------------------------------------------------------------ queues
\* empty() that never says so.
emptyNever(elements) == FALSE

\* Queue.empty and PriorityQueue.empty: not self.elements
empty(elements) == elements = <<>>

\* Queue.put with appendleft for append: a stack.
QueuePutFront(elements, x) == <<x>> \o elements

\* Queue.put / Queue.get on a deque.
QueuePut(elements, x) == Append(elements, x)

\* The tuple order turned round: a max-heap.
TupleLessReversed(a, b) == a[1] > b[1] \/ (a[1] = b[1] /\ a[2] > b[2])

\* Python's order on (priority, item) tuples: by priority, then by item.
TupleLess(a, b) == a[1] < b[1] \/ (a[1] = b[1] /\ a[2] < b[2])

\* heapq.heappop returns the least tuple of the heap.  The heap is kept here
\* as the list of its tuples in ascending order, so the least one is the head.
RECURSIVE HeapPush(_, _)
HeapPush(elements, t) ==
    IF elements = <<>> THEN <<t>>
    ELSE IF TupleLess(t, Head(elements)) THEN <<t>> \o elements
    ELSE <<Head(elements)>> \o HeapPush(Tail(elements), t)

PriorityQueuePut(elements, item, priority) == HeapPush(elements, <<priority, item>>)

PriorityQueueGet(elements) == Head(elements)[2]

\* ---------------------------------------------------------------- helpers
Put(f, k, v) == [x \in DOMAIN f \cup {k} |-> IF x = k THEN v ELSE f[x]]

\* path.reverse() left out.
ReverseOmitted(s) == s

RECURSIVE Reverse(_)
Reverse(s) == IF s = <<>> THEN <<>> ELSE Reverse(Tail(s)) \o <<Head(s)>>

NoPuts == [l \in Location |-> 0]

Nothing == <<>>

\* ------------------------------------------------------------------- Init
InitGraph == edges \in Graphs(NumLoc, MaxEdges)

InitCommon ==
    /\ current = None
    /\ i = 0
    /\ path = <<>>
    /\ ret = Nothing
    /\ visited = <<>>
    /\ puts = [NoPuts EXCEPT ![start] = 1]
    /\ reads = {}
    /\ run = 1
    /\ first = Nothing

\* breadth_first_search(graph, start) up to its while loop.
InitBfs ==
    /\ InitGraph
    /\ weights = <<>>
    /\ start \in Location
    /\ goal = None
    /\ pc = "b_while"
    /\ frontier = QueuePut(<<>>, start)
    /\ reached = {start}
    /\ came_from = <<>>
    /\ cost_so_far = <<>>
    /\ InitCommon

\* dijkstra_search(graph, start, goal) up to its while loop.
InitDijkstra ==
    /\ InitGraph
    /\ weights \in CostTables(EdgePairs(edges), MaxWeight)
    /\ start \in Location
    /\ goal \in Location
    /\ pc = "d_while"
    /\ frontier = PriorityQueuePut(<<>>, start, 0)
    /\ reached = {}
    /\ came_from = [l \in {start} |-> None]
    /\ cost_so_far = [l \in {start} |-> 0]
    /\ InitCommon

Init == InitBfs \/ InitDijkstra

\* --------------------------------------------------- breadth_first_search
\* A for loop that stops one neighbour early.
AfterForShort(c, k, loop, body) == IF k + 1 >= Len(neighbors(c)) THEN loop ELSE body

\* Where the for loop goes after position k of neighbors(c).
AfterFor(c, k, loop, body) == IF k >= Len(neighbors(c)) THEN loop ELSE body

\* The while test passes and frontier.get() is called.  popleft on an empty
\* deque raises IndexError.
BfsGet ==
    /\ pc = "b_while"
    /\ ~empty(frontier)
    /\ IF frontier = <<>>
       THEN /\ pc' = "b_error"
            /\ UNCHANGED <<current, frontier, visited, i>>
       ELSE /\ current' = Head(frontier)
            /\ frontier' = Tail(frontier)
            /\ visited' = Append(visited, current')
            /\ i' = 1
            /\ pc' = AfterFor(current', 0, "b_while", "b_for")
    /\ UNCHANGED <<edges, weights, start, goal, reached, came_from, cost_so_far,
                   path, ret, puts, reads, run, first>>

\* BfsReach without reached[next] = True.
BfsReachUnmarked ==
    /\ pc = "b_for"
    /\ neighbors(current)[i] \notin reached
    /\ frontier' = QueuePut(frontier, neighbors(current)[i])
    /\ puts' = [puts EXCEPT ![neighbors(current)[i]] = @ + 1]
    /\ i' = i + 1
    /\ pc' = AfterFor(current, i, "b_while", "b_for")
    /\ UNCHANGED <<edges, weights, start, goal, reached, came_from, cost_so_far,
                   current, path, ret, visited, reads, run, first>>

BfsReach ==
    /\ pc = "b_for"
    /\ LET next == neighbors(current)[i] IN
        /\ next \notin reached
        /\ frontier' = QueuePut(frontier, next)
        /\ reached' = reached \cup {next}
        /\ puts' = [puts EXCEPT ![next] = @ + 1]
    /\ i' = i + 1
    /\ pc' = AfterFor(current, i, "b_while", "b_for")
    /\ UNCHANGED <<edges, weights, start, goal, came_from, cost_so_far, current,
                   path, ret, visited, reads, run, first>>

BfsSkip ==
    /\ pc = "b_for"
    /\ neighbors(current)[i] \in reached
    /\ i' = i + 1
    /\ pc' = AfterFor(current, i, "b_while", "b_for")
    /\ UNCHANGED <<edges, weights, start, goal, frontier, reached, came_from,
                   cost_so_far, current, path, ret, visited, puts, reads, run, first>>

\* The loop ends and the function falls off its end: it returns None.
BfsReturn ==
    /\ pc = "b_while"
    /\ empty(frontier)
    /\ ret' = <<None>>
    /\ pc' = "b_done"
    /\ UNCHANGED <<edges, weights, start, goal, frontier, reached, came_from,
                   cost_so_far, current, i, path, visited, puts, reads, run, first>>

\* -------------------------------------------------------- dijkstra_search
\* DijkstraGet without the early exit: the goal is expanded like any other.
DijkstraGetNoBreak ==
    /\ pc = "d_while"
    /\ ~empty(frontier)
    /\ frontier # <<>>
    /\ current' = PriorityQueueGet(frontier)
    /\ frontier' = Tail(frontier)
    /\ visited' = Append(visited, current')
    /\ i' = 1
    /\ pc' = AfterFor(current', 0, "d_while", "d_for")
    /\ UNCHANGED <<edges, weights, start, goal, reached, came_from, cost_so_far,
                   path, ret, puts, reads, run, first>>

\* The while test passes and frontier.get() is called; on the goal the loop
\* breaks and the tables are returned.  heappop on an empty list raises
\* IndexError.
DijkstraGet ==
    /\ pc = "d_while"
    /\ ~empty(frontier)
    /\ IF frontier = <<>>
       THEN /\ pc' = "d_error"
            /\ UNCHANGED <<current, frontier, visited, i, ret>>
       ELSE /\ current' = PriorityQueueGet(frontier)
            /\ frontier' = Tail(frontier)
            /\ visited' = Append(visited, current')
            /\ i' = 1
            /\ pc' = IF current' = goal THEN "r_call"
                     ELSE AfterFor(current', 0, "d_while", "d_for")
            /\ ret' = IF current' = goal THEN <<came_from, cost_so_far>> ELSE ret
    /\ UNCHANGED <<edges, weights, start, goal, reached, came_from, cost_so_far,
                   path, puts, reads, run, first>>

\* new_cost that leaves out the cost of reaching current.
new_costEdgeOnly(next) == cost(current, next)

new_cost(next) == cost_so_far[current] + cost(current, next)

\* The test with != for <.
ImprovesIfDifferent(next) == new_cost(next) # cost_so_far[next]

\* The test with <= for <.
ImprovesOrTies(next) == new_cost(next) <= cost_so_far[next]

\* The second half of the loop body's test, for a neighbour that has a cost.
Improves(next) == new_cost(next) < cost_so_far[next]

\* Relax that writes came_from only for a neighbour that has none yet.
RelaxKeepsParent(next) ==
    /\ cost_so_far' = Put(cost_so_far, next, new_cost(next))
    /\ frontier' = PriorityQueuePut(frontier, next, new_cost(next))
    /\ came_from' = IF next \in DOMAIN came_from THEN came_from
                    ELSE Put(came_from, next, current)
    /\ puts' = [puts EXCEPT ![next] = @ + 1]
    /\ i' = i + 1
    /\ pc' = AfterFor(current, i, "d_while", "d_for")
    /\ UNCHANGED <<edges, weights, start, goal, reached, current, path, ret,
                   visited, reads, run, first>>

\* The three writes of the loop body, for a neighbour that passed the test.
Relax(next) ==
    /\ cost_so_far' = Put(cost_so_far, next, new_cost(next))
    /\ frontier' = PriorityQueuePut(frontier, next, new_cost(next))
    /\ came_from' = Put(came_from, next, current)
    /\ puts' = [puts EXCEPT ![next] = @ + 1]
    /\ i' = i + 1
    /\ pc' = AfterFor(current, i, "d_while", "d_for")
    /\ UNCHANGED <<edges, weights, start, goal, reached, current, path, ret,
                   visited, reads, run, first>>

\* next not in cost_so_far
DijkstraDiscover ==
    /\ pc = "d_for"
    /\ neighbors(current)[i] \notin DOMAIN cost_so_far
    /\ Relax(neighbors(current)[i])

\* new_cost < cost_so_far[next]
DijkstraImprove ==
    /\ pc = "d_for"
    /\ neighbors(current)[i] \in DOMAIN cost_so_far
    /\ Improves(neighbors(current)[i])
    /\ Relax(neighbors(current)[i])

\* DijkstraSkip that does not move on to the next neighbour.
DijkstraSkipAgain ==
    /\ pc = "d_for"
    /\ neighbors(current)[i] \in DOMAIN cost_so_far
    /\ ~Improves(neighbors(current)[i])
    /\ UNCHANGED vars

DijkstraSkip ==
    /\ pc = "d_for"
    /\ neighbors(current)[i] \in DOMAIN cost_so_far
    /\ ~Improves(neighbors(current)[i])
    /\ i' = i + 1
    /\ pc' = AfterFor(current, i, "d_while", "d_for")
    /\ UNCHANGED <<edges, weights, start, goal, frontier, reached, came_from,
                   cost_so_far, current, path, ret, visited, puts, reads, run, first>>

\* The frontier is drained: the while loop ends without a break and the
\* tables are returned.
DijkstraDrain ==
    /\ pc = "d_while"
    /\ empty(frontier)
    /\ ret' = <<came_from, cost_so_far>>
    /\ pc' = "r_call"
    /\ UNCHANGED <<edges, weights, start, goal, frontier, reached, came_from,
                   cost_so_far, current, i, path, visited, puts, reads, run, first>>

\* -------------------------------------------------------- reconstruct_path
\* The test made on start instead of goal.
NoPathFoundForStart == start \notin DOMAIN came_from

\* The test that guards the walk: goal not in came_from.
NoPathFound == goal \notin DOMAIN came_from

\* reconstruct_path(came_from, start, goal) when goal not in came_from:
\* return []
ReconstructNoPath ==
    /\ pc = "r_call"
    /\ NoPathFound
    /\ current' = goal
    /\ path' = <<>>
    /\ reads' = {}
    /\ pc' = "r_done"
    /\ UNCHANGED <<edges, weights, start, goal, frontier, reached, came_from,
                   cost_so_far, i, ret, visited, puts, run, first>>

\* ... and when goal is a key of came_from: on to the while loop.
ReconstructEnter ==
    /\ pc = "r_call"
    /\ ~NoPathFound
    /\ current' = goal
    /\ path' = <<>>
    /\ reads' = {}
    /\ pc' = "r_while"
    /\ UNCHANGED <<edges, weights, start, goal, frontier, reached, came_from,
                   cost_so_far, i, ret, visited, puts, run, first>>

\* A walk that gives up with an error when it meets a location again.
ReconstructStepDetects ==
    /\ pc = "r_while"
    /\ current # start
    /\ Len(path) < MaxPath
    /\ current \in DOMAIN came_from
    /\ path' = Append(path, current)
    /\ reads' = reads \cup {current}
    /\ current' = came_from[current]
    /\ pc' = IF current \in reads THEN "r_error" ELSE pc
    /\ UNCHANGED <<edges, weights, start, goal, frontier, reached, came_from,
                   cost_so_far, i, ret, visited, puts, run, first>>

\* One turn of the while loop: append current, then subscript came_from.
ReconstructStep ==
    /\ pc = "r_while"
    /\ current # start
    /\ Len(path) < MaxPath
    /\ current \in DOMAIN came_from
    /\ path' = Append(path, current)
    /\ reads' = reads \cup {current}
    /\ current' = came_from[current]
    /\ UNCHANGED <<edges, weights, start, goal, pc, frontier, reached, came_from,
                   cost_so_far, i, ret, visited, puts, run, first>>

\* came_from[current] with no such key raises KeyError.
ReconstructKeyError ==
    /\ pc = "r_while"
    /\ current # start
    /\ Len(path) < MaxPath
    /\ current \notin DOMAIN came_from
    /\ path' = Append(path, current)
    /\ reads' = reads \cup {current}
    /\ pc' = "r_error"
    /\ UNCHANGED <<edges, weights, start, goal, frontier, reached, came_from,
                   cost_so_far, current, i, ret, visited, puts, run, first>>

\* ReconstructReturn without path.append(start).
ReconstructReturnNoStart ==
    /\ pc = "r_while"
    /\ current = start
    /\ path' = Reverse(path)
    /\ pc' = "r_done"
    /\ UNCHANGED <<edges, weights, start, goal, frontier, reached, came_from,
                   cost_so_far, current, i, ret, visited, puts, reads, run, first>>

ReconstructReturn ==
    /\ pc = "r_while"
    /\ current = start
    /\ path' = Reverse(Append(path, start))
    /\ pc' = "r_done"
    /\ UNCHANGED <<edges, weights, start, goal, frontier, reached, came_from,
                   cost_so_far, current, i, ret, visited, puts, reads, run, first>>

\* ------------------------------------------------------------------- Next
Next ==
    \/ BfsGet
    \/ BfsReach
    \/ BfsSkip
    \/ BfsReturn
    \/ DijkstraGet
    \/ DijkstraDiscover
    \/ DijkstraImprove
    \/ DijkstraSkip
    \/ DijkstraDrain
    \/ ReconstructNoPath
    \/ ReconstructEnter
    \/ ReconstructStep
    \/ ReconstructReturn

Spec == Init /\ [][Next]_vars

\* ------------------------------------------- reconstruct_path on any table
\* Every table a caller can pass: any keys, each mapped to a location or None.
Tables == UNION {[D -> Location \cup {None}] : D \in SUBSET Location}

InitReconstruct ==
    /\ edges = [l \in Location |-> <<>>]
    /\ weights = <<>>
    /\ start \in Location
    /\ goal \in Location
    /\ came_from \in Tables
    /\ pc = "r_call"
    /\ frontier = <<>>
    /\ reached = {}
    /\ cost_so_far = <<>>
    /\ current = None
    /\ i = 0
    /\ path = <<>>
    /\ ret = Nothing
    /\ visited = <<>>
    /\ puts = NoPuts
    /\ reads = {}
    /\ run = 1
    /\ first = Nothing

NextReconstruct ==
    \/ ReconstructNoPath
    \/ ReconstructEnter
    \/ ReconstructStep
    \/ ReconstructKeyError
    \/ ReconstructReturn

SpecReconstruct == InitReconstruct /\ [][NextReconstruct]_vars

\* ------------------------------------------------- the same search, twice
\* Rerun for tables that outlive the call (module-level dicts): reached and
\* cost_so_far are not built afresh.
RerunStale ==
    /\ run = 1
    /\ pc \in {"b_done", "r_call"}
    /\ run' = 2
    /\ first' = [ret |-> ret, visited |-> visited, reached |-> reached]
    /\ pc' = IF pc = "b_done" THEN "b_while" ELSE "d_while"
    /\ frontier' = IF pc = "b_done" THEN QueuePut(<<>>, start)
                   ELSE PriorityQueuePut(<<>>, start, 0)
    /\ came_from' = IF pc = "b_done" THEN <<>> ELSE [l \in {start} |-> None]
    /\ current' = None
    /\ i' = 0
    /\ ret' = Nothing
    /\ visited' = <<>>
    /\ puts' = [NoPuts EXCEPT ![start] = 1]
    /\ UNCHANGED <<edges, weights, start, goal, path, reads, reached, cost_so_far>>

\* A second call of the search that just returned, with the same arguments:
\* its locals are built afresh, the graph is the caller's and is not touched.
Rerun ==
    /\ run = 1
    /\ pc \in {"b_done", "r_call"}
    /\ run' = 2
    /\ first' = [ret |-> ret, visited |-> visited, reached |-> reached]
    /\ pc' = IF pc = "b_done" THEN "b_while" ELSE "d_while"
    /\ frontier' = IF pc = "b_done" THEN QueuePut(<<>>, start)
                   ELSE PriorityQueuePut(<<>>, start, 0)
    /\ reached' = IF pc = "b_done" THEN {start} ELSE {}
    /\ came_from' = IF pc = "b_done" THEN <<>> ELSE [l \in {start} |-> None]
    /\ cost_so_far' = IF pc = "b_done" THEN <<>> ELSE [l \in {start} |-> 0]
    /\ current' = None
    /\ i' = 0
    /\ ret' = Nothing
    /\ visited' = <<>>
    /\ puts' = [NoPuts EXCEPT ![start] = 1]
    /\ UNCHANGED <<edges, weights, start, goal, path, reads>>

NextTwice ==
    \/ BfsGet
    \/ BfsReach
    \/ BfsSkip
    \/ BfsReturn
    \/ DijkstraGet
    \/ DijkstraDiscover
    \/ DijkstraImprove
    \/ DijkstraSkip
    \/ DijkstraDrain
    \/ Rerun

SpecTwice == Init /\ [][NextTwice]_vars

\* ------------------------------------------------- what the graph says
\* The paths of the graph that begin with p and visit no location twice.
RECURSIVE SimplePathsFrom(_)
SimplePathsFrom(p) ==
    {p} \cup UNION {SimplePathsFrom(Append(p, v)) :
                        v \in Range(edges[p[Len(p)]]) \ Range(p)}

\* Paths of the graph from start that visit no location twice.
SimplePaths == SimplePathsFrom(<<start>>)

Reachable == {p[Len(p)] : p \in SimplePaths}

RECURSIVE PathCost(_)
PathCost(p) ==
    IF Len(p) < 2 THEN 0
    ELSE weights[<<p[1], p[2]>>] + PathCost(Tail(p))

Min(S) == CHOOSE m \in S : \A n \in S : m <= n

\* Cost of a cheapest path from start to l, for l in Reachable.  With costs
\* that are not negative a cheapest path can be taken simple.
ShortestCost(l) == Min({PathCost(p) : p \in {q \in SimplePaths : q[Len(q)] = l}})

IsEdgePath(p) == \A j \in 1 .. Len(p) - 1 : p[j + 1] \in Range(edges[p[j]])

InDijkstra == pc \in {"d_while", "d_for"}

InBfs == pc \in {"b_while", "b_for", "b_done"}

\* ------------------------------------------------------------------ claims
\* C1: when dijkstra_search returns, cost_so_far[L] is the cost of a cheapest
\* path from start to L for every L the frontier handed out (the goal being
\* the last of them), and, if the goal cannot be reached, for every L that can.
C1_CostsAreShortest ==
    pc = "r_call" =>
        /\ \A L \in Range(visited) :
              L \in DOMAIN ret[2] /\ ret[2][L] = ShortestCost(L)
        /\ goal \notin Reachable =>
              \A L \in Reachable :
                  L \in DOMAIN ret[2] /\ ret[2][L] = ShortestCost(L)

\* A search that returned at the goal after a cost was improved on the way.
C1_Witness ==
    /\ pc = "r_call"
    /\ Len(visited) >= 3
    /\ visited[Len(visited)] = goal
    /\ \E L \in Location : puts[L] >= 2

\* C2: when breadth_first_search ends, reached is exactly the set of
\* locations that a directed path from start leads to.
C2_ReachedIsReachable == pc = "b_done" => reached = Reachable

\* A finished search that reached some locations and not others, one of the
\* others having an edge into the reached ones.
C2_Witness ==
    /\ pc = "b_done"
    /\ Cardinality(reached) >= 2
    /\ \E u \in Location \ reached : Range(edges[u]) \cap reached # {}

\* C3: for a goal that can be reached, the path reconstruct_path returns for
\* the tables of dijkstra_search runs along edges of the graph and its edge
\* costs sum to the returned cost_so_far[goal].
C3_PathCostIsGoalCost ==
    (pc = "r_done" /\ goal \in Reachable) =>
        /\ IsEdgePath(path)
        /\ PathCost(path) = ret[2][goal]

\* A path of two edges or more to a goal whose cost was improved, and whose
\* backpointer was rewritten, during the search.
C3_Witness ==
    /\ pc = "r_done"
    /\ Len(path) >= 3
    /\ puts[goal] >= 2

RECURSIVE ReachesStart(_, _)
ReachesStart(l, seen) ==
    IF l = start THEN TRUE
    ELSE IF l \in seen \/ l \notin DOMAIN came_from THEN FALSE
    ELSE ReachesStart(came_from[l], seen \cup {l})

\* C4: in every state of dijkstra_search, the backpointers from any key of
\* came_from lead to start without passing a location twice, and
\* came_from[start] is None.
C4_BackpointersFormTree ==
    (InDijkstra \/ pc = "r_call") =>
        /\ start \in DOMAIN came_from
        /\ came_from[start] = None
        /\ \A k \in DOMAIN came_from : ReachesStart(k, {})

\* The search is under way and a backpointer was rewritten to a location
\* that is not start.
C4_Witness ==
    /\ InDijkstra
    /\ \E k \in DOMAIN came_from :
          puts[k] >= 2 /\ came_from[k] # None /\ came_from[k] # start

\* C5: breadth_first_search puts no location on the frontier twice, the put
\* of start before the loop counted.
C5_PutAtMostOnce == InBfs => \A l \in Location : puts[l] <= 1

\* A finished search in which some location is a neighbour of two visited
\* locations, so that it was met twice.
C5_Witness ==
    /\ pc = "b_done"
    /\ \E l \in Location : \E u, v \in Range(visited) :
          u # v /\ l \in Range(edges[u]) /\ l \in Range(edges[v])

\* C6: dijkstra_search looks up no missing key on its way; if the goal cannot
\* be reached it returns with the frontier drained, the goal never handed out
\* and no came_from entry for the goal; if it can, came_from has the entry.
C6_GoalEntryIffReachable ==
    /\ pc = "d_for" =>
          /\ current \in DOMAIN cost_so_far
          /\ i \in 1 .. Len(edges[current])
          /\ <<current, edges[current][i]>> \in DOMAIN weights
    /\ pc = "r_call" =>
          IF goal \in Reachable THEN goal \in DOMAIN ret[1]
          ELSE /\ frontier = <<>>
               /\ goal \notin Range(visited)
               /\ goal \notin DOMAIN ret[1]

\* The search returned without the goal after handing out two locations or more.
C6_Witness ==
    /\ pc = "r_call"
    /\ goal \notin DOMAIN ret[1]
    /\ Len(visited) >= 2

\* C7: for any table and any start, once reconstruct_path has made its test
\* and goal is no key of came_from, it has returned the empty list and has
\* subscripted came_from nowhere.
C7_NoEntryGivesEmptyPath ==
    (pc # "r_call" /\ goal \notin DOMAIN came_from) =>
        /\ pc = "r_done"
        /\ path = <<>>
        /\ reads = {}

\* The empty path was returned for a table that has start and other keys,
\* but not goal.
C7_Witness ==
    /\ pc = "r_done"
    /\ goal \notin DOMAIN came_from
    /\ start \in DOMAIN came_from
    /\ Cardinality(DOMAIN came_from) >= 2

\* C8: after dijkstra_search(graph, start, start), reconstruct_path returns
\* the list of start alone.
C8_StartIsGoalGivesStart == (pc = "r_done" /\ start = goal) => path = <<start>>

\* The one-element path was returned on a graph in which start has neighbours.
C8_Witness ==
    /\ pc = "r_done"
    /\ start = goal
    /\ edges[start] # <<>>
    /\ path = <<start>>

\* C9: for a goal that can be reached, the path returned for the tables of
\* dijkstra_search starts at start, ends at goal, repeats no location, and
\* each of its locations is a neighbour of the one before it, which is its
\* came_from.
C9_PathRunsStartToGoal ==
    (pc = "r_done" /\ goal \in Reachable) =>
        /\ path # <<>>
        /\ path[1] = start
        /\ path[Len(path)] = goal
        /\ Injective(path)
        /\ \A j \in 1 .. Len(path) - 1 :
              /\ came_from[path[j + 1]] = path[j]
              /\ path[j + 1] \in Range(edges[path[j]])

\* A returned path of three locations.
C9_Witness ==
    /\ pc = "r_done"
    /\ Len(path) = 3
    /\ path[1] = start
    /\ path[3] = goal

A == 1
B == 2
C == 3
D == 4
E == 5
F == 6

example_graph == <<<<B>>, <<C>>, <<B, D, F>>, <<C, E>>, <<F>>, <<>>>>

\* breadth_first_search(example_graph, 'A') and breadth_first_search(
\* example_graph, 'E'), up to the while loop.
InitExample ==
    /\ edges = example_graph
    /\ weights = <<>>
    /\ start \in {A, E}
    /\ goal = None
    /\ pc = "b_while"
    /\ frontier = QueuePut(<<>>, start)
    /\ reached = {start}
    /\ came_from = <<>>
    /\ cost_so_far = <<>>
    /\ current = None
    /\ i = 0
    /\ path = <<>>
    /\ ret = Nothing
    /\ visited = <<>>
    /\ puts = [l \in DOMAIN example_graph |-> IF l = start THEN 1 ELSE 0]
    /\ reads = {}
    /\ run = 1
    /\ first = Nothing

\* diagram4 = GridWithWeights(10, 10)
GridWidth == 10
GridHeight == 10

\* GridWithWeights.cost: weights.get(to_node, 1), and the 5 of diagram4.weights.
DefaultCost == 1
HeavyCost == 5

diagram4_walls == {<<1, 7>>, <<1, 8>>, <<2, 7>>, <<2, 8>>, <<3, 7>>, <<3, 8>>}

diagram4_weights ==
    {<<3, 4>>, <<3, 5>>, <<4, 1>>, <<4, 2>>, <<4, 3>>, <<4, 4>>, <<4, 5>>,
     <<4, 6>>, <<4, 7>>, <<4, 8>>, <<5, 1>>, <<5, 2>>, <<5, 3>>, <<5, 4>>,
     <<5, 5>>, <<5, 6>>, <<5, 7>>, <<5, 8>>, <<6, 2>>, <<6, 3>>, <<6, 4>>,
     <<6, 5>>, <<6, 6>>, <<6, 7>>, <<7, 3>>, <<7, 4>>, <<7, 5>>}

\* A grid location (x, y) as a number from 1 up, in the order Python gives
\* the tuples: by x, then by y.
CellId(c) == c[1] * GridHeight + c[2] + 1

IdCell(id) == <<(id - 1) \div GridHeight, (id - 1) % GridHeight>>

GridIds == 1 .. GridWidth * GridHeight

in_bounds(id) == 0 <= id[1] /\ id[1] < GridWidth /\ 0 <= id[2] /\ id[2] < GridHeight

passable(id) == id \notin diagram4_walls

\* The first step east also going south.
GridCandidatesDiagonal(x, y) ==
    <<<<x + 1, y + 1>>, <<x - 1, y>>, <<x, y - 1>>, <<x, y + 1>>>>

\* E W N S
GridCandidates(x, y) == <<<<x + 1, y>>, <<x - 1, y>>, <<x, y - 1>>, <<x, y + 1>>>>

\* SquareGrid.neighbors
SquareGridNeighbors(id) ==
    LET found == GridCandidates(id[1], id[2])
        ordered == IF (id[1] + id[2]) % 2 = 0 THEN Reverse(found) ELSE found
    IN  SelectSeq(SelectSeq(ordered, in_bounds), passable)

GridCost(from_node, to_node) ==
    IF to_node \in diagram4_weights THEN HeavyCost ELSE DefaultCost

diagram4_edges ==
    [id \in GridIds |->
        [k \in DOMAIN SquareGridNeighbors(IdCell(id)) |->
            CellId(SquareGridNeighbors(IdCell(id))[k])]]

\* dijkstra_search(diagram4, (1, 4), (8, 3)) up to the while loop.
InitDiagram4 ==
    /\ edges = diagram4_edges
    /\ weights = [e \in {<<u, v>> \in GridIds \X GridIds : v \in Range(diagram4_edges[u])}
                    |-> GridCost(IdCell(e[1]), IdCell(e[2]))]
    /\ start = CellId(<<1, 4>>)
    /\ goal = CellId(<<8, 3>>)
    /\ pc = "d_while"
    /\ frontier = PriorityQueuePut(<<>>, start, 0)
    /\ reached = {}
    /\ came_from = [l \in {start} |-> None]
    /\ cost_so_far = [l \in {start} |-> 0]
    /\ current = None
    /\ i = 0
    /\ path = <<>>
    /\ ret = Nothing
    /\ visited = <<>>
    /\ puts = [l \in GridIds |-> IF l = start THEN 1 ELSE 0]
    /\ reads = {}
    /\ run = 1
    /\ first = Nothing

InitDriver == InitExample \/ InitDiagram4

\* The steps the drivers' three searches take: none of them improves a cost
\* or drains the priority queue, and the goal is found.
NextDriver ==
    \/ BfsGet
    \/ BfsReach
    \/ BfsSkip
    \/ BfsReturn
    \/ DijkstraGet
    \/ DijkstraDiscover
    \/ DijkstraSkip
    \/ ReconstructEnter
    \/ ReconstructStep
    \/ ReconstructReturn

SpecDriver == InitDriver /\ [][NextDriver]_vars

\* C11: on example_graph, breadth_first_search from 'A' visits A, B, C, D, F,
\* E in this order and ends with every location reached; from 'E' it ends
\* with E and F reached and nothing else.
C11_ExampleGraphOrder ==
    /\ (pc = "b_done" /\ start = A) =>
          /\ visited = <<A, B, C, D, F, E>>
          /\ reached = {A, B, C, D, E, F}
    /\ (pc = "b_done" /\ start = E) => reached = {E, F}

\* The search from 'A' has ended after six visits.
C11_Witness ==
    /\ pc = "b_done"
    /\ start = A
    /\ Len(visited) = 6

AdjacentCells(c, d) ==
    \/ c[1] = d[1] /\ (c[2] = d[2] + 1 \/ d[2] = c[2] + 1)
    \/ c[2] = d[2] /\ (c[1] = d[1] + 1 \/ d[1] = c[1] + 1)

\* C12: on diagram4, the path reconstructed for the search from (1, 4) to
\* (8, 3) is not empty, starts at (1, 4), ends at (8, 3), steps between
\* cells that differ by 1 in one coordinate, and holds only cells that are
\* in bounds and no walls.
C12_Diagram4Path ==
    (pc = "r_done" /\ edges = diagram4_edges) =>
        /\ path # <<>>
        /\ IdCell(path[1]) = <<1, 4>>
        /\ IdCell(path[Len(path)]) = <<8, 3>>
        /\ \A j \in 1 .. Len(path) - 1 :
              AdjacentCells(IdCell(path[j]), IdCell(path[j + 1]))
        /\ \A j \in DOMAIN path :
              /\ path[j] \in GridIds
              /\ in_bounds(IdCell(path[j]))
              /\ passable(IdCell(path[j]))

\* The path of fifteen cells that the driver draws has been returned.
C12_Witness ==
    /\ pc = "r_done"
    /\ edges = diagram4_edges
    /\ Len(path) = 15
    /\ ret[2][goal] = 14

\* C13: the call breadth_first_search(graph, start) returns the reached set:
\* the value it hands back holds exactly the locations marked reached.
C13_ReturnsReached == pc = "b_done" => (ret # <<None>> /\ ret[1] = reached)

\* C17: neither search calls get on an empty frontier: no get has raised
\* IndexError.
C17_NoGetOnEmpty == pc # "b_error" /\ pc # "d_error"

\* The while test was made on an empty frontier, after gets that emptied it,
\* and the search went on to return.
C17_Witness ==
    /\ pc = "b_done"
    /\ frontier = <<>>
    /\ Len(visited) >= 3

\* ------------------------------------------- dijkstra_search on its own
\* dijkstra_search(graph, start, goal) up to its while loop, for a goal that
\* is no location of the graph: the loop never breaks and runs until the
\* frontier drains.  Until it dequeues its goal, a search for a goal of the
\* graph takes the steps of this one.  The graphs have one edge more, which
\* a duplicate entry of a location with a neighbour needs.
InitDijkstraNoGoal ==
    /\ edges \in Graphs(NumLoc, MaxEdges + 1)
    /\ weights \in CostTables(EdgePairs(edges), MaxWeight)
    /\ start \in Location
    /\ goal = None
    /\ pc = "d_while"
    /\ frontier = PriorityQueuePut(<<>>, start, 0)
    /\ reached = {}
    /\ came_from = [l \in {start} |-> None]
    /\ cost_so_far = [l \in {start} |-> 0]
    /\ InitCommon

NextDijkstra ==
    \/ DijkstraGet
    \/ DijkstraDiscover
    \/ DijkstraImprove
    \/ DijkstraSkip
    \/ DijkstraDrain

SpecDijkstra == InitDijkstra /\ [][NextDijkstra]_vars

SpecDrain == InitDijkstraNoGoal /\ [][NextDijkstra]_vars

\* The locations dequeued so far.
Dequeued == Range(visited)

\* C14: dijkstra_search stops at the first step that dequeues goal: that step
\* returns the tables without entering the for loop over goal's neighbours,
\* leaves every table and put count as it found them, and no later step
\* changes the tables, the frontier or the dequeue record.
C14_StopsAtGoal ==
    [][/\ goal \in Range(visited') =>
            /\ pc' = "r_call"
            /\ ret' = <<came_from, cost_so_far>>
            /\ UNCHANGED <<came_from, cost_so_far, puts>>
       /\ goal \in Dequeued => UNCHANGED <<frontier, visited, current>>]_vars

\* The goal was dequeued and the search returned with entries still on the
\* frontier and the goal's neighbours never enumerated.
C14_Witness ==
    /\ pc = "r_call"
    /\ visited # <<>>
    /\ visited[Len(visited)] = goal
    /\ frontier # <<>>
    /\ goal # start
    /\ edges[goal] # <<>>

\* C15: in every step of dijkstra_search an entry of cost_so_far stays, a
\* write to an existing entry strictly lowers its value, and came_from of a
\* location is written (with current) in exactly the steps that write its
\* cost_so_far.
C15_CostsOnlyDecrease ==
    [][\A l \in Location :
        /\ l \in DOMAIN cost_so_far =>
              /\ l \in DOMAIN cost_so_far'
              /\ cost_so_far'[l] <= cost_so_far[l]
        /\ l \in DOMAIN came_from => l \in DOMAIN came_from'
        /\ puts'[l] # puts[l] =>
              /\ l \in DOMAIN cost_so_far' /\ l \in DOMAIN came_from'
              /\ l \in DOMAIN cost_so_far => cost_so_far'[l] < cost_so_far[l]
              /\ cost_so_far'[l] = new_cost(l)
              /\ came_from'[l] = current
        /\ puts'[l] = puts[l] =>
              /\ l \in DOMAIN cost_so_far' => /\ l \in DOMAIN cost_so_far
                                              /\ cost_so_far'[l] = cost_so_far[l]
              /\ l \in DOMAIN came_from' => /\ l \in DOMAIN came_from
                                            /\ came_from'[l] = came_from[l]]_vars

\* A location's entry was written more than once and now holds a path cost
\* below a first, costlier write.
C15_Witness ==
    /\ InDijkstra
    /\ \E l \in Location :
        /\ puts[l] >= 2
        /\ came_from[l] # start
        /\ cost_so_far[l] = ShortestCost(l)

\* current was dequeued before this dequeue: the entry that gave it is a
\* stale duplicate.
StaleDequeue == \E k \in 1 .. Len(visited) - 1 : visited[k] = current

\* C20: once a location has been dequeued its cost_so_far and came_from
\* entries are never written again and it is never put again; the for loop
\* over a stale duplicate's neighbours changes no table and puts nothing.
C20_SettledAtFirstDequeue ==
    [][/\ \A l \in Dequeued :
            /\ cost_so_far'[l] = cost_so_far[l]
            /\ came_from'[l] = came_from[l]
            /\ puts'[l] = puts[l]
       /\ (pc = "d_for" /\ StaleDequeue) =>
            UNCHANGED <<cost_so_far, came_from, puts, frontier>>]_vars

\* A stale duplicate of a location with neighbours was dequeued and its for
\* loop has run to the end.
C20_Witness ==
    /\ pc = "d_while"
    /\ visited # <<>>
    /\ StaleDequeue
    /\ current = visited[Len(visited)]
    /\ edges[current] # <<>>
    /\ i = Len(edges[current]) + 1

\* ------------------------------------ breadth_first_search on its own
\* Graphs with one location more, which a choice between a near and a far
\* location in the frontier needs.
WideLocation == 1 .. NumLoc + 1

WideNeighborLists(u, budget) ==
    {s \in UNION {[1 .. k -> WideLocation \ {u}] : k \in 0 .. budget} : Injective(s)}

RECURSIVE WideGraphs(_, _)
WideGraphs(n, budget) ==
    IF n = 0 THEN {<<>>}
    ELSE UNION {{Append(g, l) : g \in WideGraphs(n - 1, budget - Len(l))} :
                    l \in WideNeighborLists(n, budget)}

\* breadth_first_search(graph, start) up to its while loop.
InitBfsWide ==
    /\ edges \in WideGraphs(NumLoc + 1, MaxEdges)
    /\ weights = <<>>
    /\ start \in WideLocation
    /\ goal = None
    /\ pc = "b_while"
    /\ frontier = QueuePut(<<>>, start)
    /\ reached = {start}
    /\ came_from = <<>>
    /\ cost_so_far = <<>>
    /\ current = None
    /\ i = 0
    /\ path = <<>>
    /\ ret = Nothing
    /\ visited = <<>>
    /\ puts = [l \in WideLocation |-> IF l = start THEN 1 ELSE 0]
    /\ reads = {}
    /\ run = 1
    /\ first = Nothing

NextBfs ==
    \/ BfsGet
    \/ BfsReach
    \/ BfsSkip
    \/ BfsReturn

SpecBfs == InitBfsWide /\ [][NextBfs]_vars

\* Number of edges of a shortest path from start to l, for l in Reachable.
Distance(l) == Min({Len(p) - 1 : p \in {q \in SimplePaths : q[Len(q)] = l}})

\* C16: breadth_first_search dequeues locations in non-decreasing order of
\* their edge-count distance from start.
C16_DequeuedByDistance ==
    \A j, k \in 1 .. Len(visited) :
        j < k => Distance(visited[j]) <= Distance(visited[k])

\* The frontier held a location two edges from start, put by the first of
\* two locations one edge from start, and handed it out after the second.
C16_Witness ==
    /\ pc = "b_done"
    /\ Len(visited) = 4
    /\ Distance(visited[3]) = 1
    /\ Distance(visited[4]) = 2
    /\ visited[4] \in Range(edges[visited[2]])

\* ------------------------------------------------------------ termination
NextSearch ==
    \/ BfsGet
    \/ BfsReach
    \/ BfsSkip
    \/ BfsReturn
    \/ DijkstraGet
    \/ DijkstraDiscover
    \/ DijkstraImprove
    \/ DijkstraSkip
    \/ DijkstraDrain

\* One thread runs each call to completion: a search that can take a step
\* takes one.
SpecSearch == Init /\ [][NextSearch]_vars /\ WF_vars(NextSearch)

\* C18: dijkstra_search and breadth_first_search eventually return, for
\* every graph, start and goal.
C18_SearchTerminates == <>(pc = "b_done" \/ pc = "r_call")

\* dijkstra_search returned after putting some location more than once.
C18_Witness ==
    /\ pc = "r_call"
    /\ \E l \in Location : puts[l] >= 2

\* --------------------------------------------- reconstruct_path on a cycle
\* Following came_from from l meets a location again before it meets start
\* or a location with no entry.
RECURSIVE EntersCycle(_, _)
EntersCycle(l, seen) ==
    IF l = start \/ l \notin DOMAIN came_from THEN FALSE
    ELSE IF l \in seen THEN TRUE
    ELSE EntersCycle(came_from[l], seen \cup {l})

\* C19: on a table whose backpointers from goal enter a cycle without start,
\* reconstruct_path never returns and never raises: it stays in its while
\* loop, whose test passes and whose subscript finds a key at every turn.
C19_CycleNeverEnds ==
    EntersCycle(goal, {}) =>
        /\ pc \in {"r_call", "r_while"}
        /\ pc = "r_while" => /\ current # start
                             /\ current \in DOMAIN came_from

\* The walk has gone round a cycle of a table that has an entry for start,
\* and is about to go on.
C19_Witness ==
    /\ pc = "r_while"
    /\ EntersCycle(goal, {})
    /\ start \in DOMAIN came_from
    /\ Len(path) = MaxPath
    /\ current \in Range(path)

====
